---- MODULE Spec2Model ----
(***************************************************************************)
(* Finger of God (src/fingerofgod.py): a background auto-clicker.          *)
(*                                                                         *)
(* Three kinds of execution context touch the AutoClickerApp object:       *)
(*   - the UI context (Tk mainloop): runs one event handler at a time;     *)
(*   - the click threads started by _start_clicking, each running          *)
(*     _clicking_loop;                                                     *)
(*   - the thread of the `keyboard` library, which runs the global F8      *)
(*     callback registered by start_position_selection.                    *)
(* A step of the model is one handler of the UI context, or one stretch of *)
(* a thread's code between two accesses to state that another context can  *)
(* change.  The model covers the application from construction until its   *)
(* window is closed (_on_closing ends the process).  Of the widgets, the   *)
(* model keeps what the user can act on or is told: the text of the        *)
(* start/stop button, the state of the "Select Position" button, the       *)
(* listbox, the two input variables and the dialogs; the status and        *)
(* position labels are written and never read, and are left out.           *)
(***************************************************************************)
EXTENDS Integers, Sequences, FiniteSets, TLC

\* ------------------------------------------------------------------ bounds
MaxThreads == 2       \* click threads that may exist at the same time

\* --------------------------------------------------------- program constants
WM_LBUTTONDOWN == 513
WM_LBUTTONUP   == 514
WM_RBUTTONDOWN == 516
WM_RBUTTONUP   == 517

ClickTypes == {"Left Click", "Right Click", "Double Click"}

\* ------------------------------------------------------------- environment
Hwnds    == {1, 2}                  \* handles of the desktop's top-level windows
Threads  == 1..MaxThreads
None     == 0                       \* Python's None for a handle (no handle is 0)
NoPosition == <<>>                  \* Python's None for click_position
\* Screen points the cursor is sampled at (GetCursorPos).
CursorPoints == {<<10, 20>>, <<30, 40>>}
\* Contents the delay spinbox can hold: key validation (_validate_delay)
\* admits the empty string and the decimal integers 1..999999.
\* A text is the sequence of its decimal digits: <<>> is "", <<1, 0, 0>> is "100".
DelayTexts == {<<>>, <<1, 0, 0>>}

VARIABLES
    is_running,                \* AutoClickerApp.is_running
    click_position,            \* NoPosition or <<x, y>>
    selected_window,           \* None or the hwnd of the selected WindowInfo
    position_selection_active, \* AutoClickerApp.position_selection_active
    click_type_var,            \* Tk variable of the click type combobox
    delay_var,                 \* Tk variable of the delay spinbox
    window_listbox,            \* handles shown in the listbox
    toggle_btn,                \* text of the start/stop button
    select_position_btn,       \* state of the "Select Position" button
    messagebox,                \* title of the dialog the last UI handler showed
    windows,                   \* handles for which IsWindow is true
    threads,                   \* the click threads (threading.Thread objects)
    after_queue,               \* callbacks posted with root.after(0, ...)
    hotkey_registered,         \* the keyboard library holds the F8 hotkey
    position_sets,             \* assignments to click_position since selection
                               \* was last armed (history; 2 stands for "2 or more")
    cursor,                    \* where the mouse cursor is (GetCursorPos)
    hook_available,            \* the keyboard library can register a hotkey
    kb,                        \* the keyboard library's thread running the F8 callback
    run_config,                \* history: the window and the point the run under way
                               \* when the behaviour begins was started with
    call                       \* a call of a function of the program made on its
                               \* own: its arguments and, once made, its result

vars == <<is_running, click_position, selected_window, position_selection_active,
          click_type_var, delay_var, window_listbox, toggle_btn,
          select_position_btn, messagebox, windows, threads, after_queue,
          hotkey_registered, position_sets, cursor,
          hook_available, kb, run_config, call>>

\* Groups of variables, for UNCHANGED.
loopVars == <<is_running, toggle_btn, threads, after_queue>>
cfgVars  == <<selected_window, click_type_var, delay_var, window_listbox>>
selVars  == <<position_selection_active, select_position_btn, hotkey_registered,
              position_sets, kb>>
envVars  == <<windows, cursor, hook_available>>
\* What no step of the application or of its environment changes.
auxVars  == <<run_config, call>>
\* What a function called on its own leaves alone: everything but call.
stateVars == <<loopVars, cfgVars, selVars, envVars, click_position, messagebox,
               run_config>>
\* What a step of a click thread leaves alone, besides the after queue.
appVars  == <<is_running, toggle_btn, click_position, cfgVars, selVars,
              messagebox, envVars, auxVars>>

\* ------------------------------------------------------------ click threads
\* A click thread: its place in _clicking_loop / send_mouse_click (pc), the
\* arguments it has evaluated for send_mouse_click (hwnd, x, y, click_type),
\* the lParam computed there, the index i of the next step of the click
\* sequence, and what the current send_mouse_click call has done so far
\* (trace).  stop records that _stop_clicking has run since the thread last
\* tested is_running: a request to stop that the thread has yet to see.
NoThread ==
    [pc |-> "none", hwnd |-> None, x |-> 0, y |-> 0, click_type |-> "",
     lParam |-> 0, i |-> 0, trace |-> <<>>, stop |-> FALSE]

\* The thread object exists and its run() has not returned.
IsAlive(t) == threads[t].pc \notin {"none", "done"}

\* The thread is inside the body of the while loop of _clicking_loop
\* (asleep at its end included).
InLoopBody(t) ==
    threads[t].pc \in {"valid", "arg_hwnd", "arg_y", "arg_type",
                       "smc_check", "smc", "sleep"}

\* The thread is in the loop, or about to test is_running for the first time.
InLoop(t) == threads[t].pc = "start" \/ InLoopBody(t)

\* Slots a new thread can take: never started, or finished with its
\* notification (if any) already taken from the after queue.
FreeSlots ==
    {t \in Threads : /\ ~IsAlive(t)
                     /\ \A k \in 1..Len(after_queue) : after_queue[k].t # t}

\* No run is under way; no function has been called on its own.
NoRun  == [hwnd |-> None, point |-> NoPosition]
NoCall == [fn |-> "none"]

\* The application after AutoClickerApp() has been constructed.
InitApp ==
    /\ is_running = FALSE
    /\ click_position = NoPosition
    /\ selected_window = None
    /\ position_selection_active = FALSE
    /\ click_type_var = "Left Click"
    /\ delay_var = <<1, 0, 0>>
    /\ window_listbox = Hwnds
    /\ toggle_btn = "Start Auto Clicking (F6)"
    /\ select_position_btn = "normal"
    /\ messagebox = "none"
    /\ windows = Hwnds
    /\ threads = [t \in Threads |-> NoThread]
    /\ after_queue = <<>>
    /\ hotkey_registered = FALSE
    /\ position_sets = 0
    /\ cursor = <<10, 20>>
    /\ hook_available = TRUE
    /\ kb = [pc |-> "idle", x |-> 0, y |-> 0]
    /\ run_config = NoRun

Init ==
    /\ InitApp
    /\ call = NoCall

\* ----------------------------------------------------------------- WindowsAPI
\* IsWindow(hwnd).
is_window_valid(hwnd) == hwnd \in windows

\* Screen position of the client area's origin of a window.  ScreenToClient
\* subtracts it, so client coordinates left of or above the window are
\* negative.
WindowOrigin(hwnd) == <<15 * hwnd, 25 * hwnd>>

screen_to_client(hwnd, x, y) == <<x - WindowOrigin(hwnd)[1], y - WindowOrigin(hwnd)[2]>>

\* lParam with the mask on x forgotten: (client_y << 16) | client_x.  The
\* low 16 bits of client_y << 16 are zero, so the or is a sum, unless x is
\* negative, when its sign bits cover y (x of the signed 16-bit range).
MakeLParamUnmasked(client_x, client_y) ==
    IF client_x < 0 THEN client_x ELSE client_y * 65536 + client_x

\* lParam = (client_y << 16) | (client_x & 0xFFFF) on Python's unbounded
\* integers: the low 16 bits of client_y << 16 are zero, so the bitwise or
\* adds the two parts.
MakeLParam(client_x, client_y) == client_y * 65536 + (client_x % 65536)

\* The two calls send_mouse_click makes, as entries of a thread's trace.
PostMessageW(hwnd, msg, wParam, lParam) ==
    [op |-> "post", hwnd |-> hwnd, msg |-> msg, wParam |-> wParam,
     lParam |-> lParam, ms |-> 0]

time_sleep(ms) ==
    [op |-> "sleep", hwnd |-> None, msg |-> 0, wParam |-> 0, lParam |-> 0,
     ms |-> ms]

\* send_mouse_click with the double click written like two left clicks: a
\* pause inside each click and none between them.
SendMouseClickStepsPauseInside(hwnd, lParam, click_type) ==
    IF click_type = "Left Click" THEN
        << PostMessageW(hwnd, WM_LBUTTONDOWN, 1, lParam),
           time_sleep(10),
           PostMessageW(hwnd, WM_LBUTTONUP, 0, lParam) >>
    ELSE IF click_type = "Right Click" THEN
        << PostMessageW(hwnd, WM_RBUTTONDOWN, 2, lParam),
           time_sleep(10),
           PostMessageW(hwnd, WM_RBUTTONUP, 0, lParam) >>
    ELSE IF click_type = "Double Click" THEN
        << PostMessageW(hwnd, WM_LBUTTONDOWN, 1, lParam),
           time_sleep(10),
           PostMessageW(hwnd, WM_LBUTTONUP, 0, lParam),
           PostMessageW(hwnd, WM_LBUTTONDOWN, 1, lParam),
           time_sleep(10),
           PostMessageW(hwnd, WM_LBUTTONUP, 0, lParam) >>
    ELSE << >>

\* The calls send_mouse_click makes, in program order, once the handle has
\* been checked and lParam computed.  A click type that is none of the three
\* falls through the if/elif chain and does nothing.
SendMouseClickSteps(hwnd, lParam, click_type) ==
    IF click_type = "Left Click" THEN
        << PostMessageW(hwnd, WM_LBUTTONDOWN, 1, lParam),
           time_sleep(10),
           PostMessageW(hwnd, WM_LBUTTONUP, 0, lParam) >>
    ELSE IF click_type = "Right Click" THEN
        << PostMessageW(hwnd, WM_RBUTTONDOWN, 2, lParam),
           time_sleep(10),
           PostMessageW(hwnd, WM_RBUTTONUP, 0, lParam) >>
    ELSE IF click_type = "Double Click" THEN
        << PostMessageW(hwnd, WM_LBUTTONDOWN, 1, lParam),
           PostMessageW(hwnd, WM_LBUTTONUP, 0, lParam),
           time_sleep(50),
           PostMessageW(hwnd, WM_LBUTTONDOWN, 1, lParam),
           PostMessageW(hwnd, WM_LBUTTONUP, 0, lParam) >>
    ELSE << >>

\* int(text) for a text of decimal digits; -1 stands for ValueError, which
\* int("") raises.
RECURSIVE DigitsValue(_)
DigitsValue(text) ==
    IF text = <<>> THEN 0
    ELSE 10 * DigitsValue(SubSeq(text, 1, Len(text) - 1)) + text[Len(text)]

PyInt(text) == IF text = <<>> THEN -1 ELSE DigitsValue(text)

\* ------------------------------------------------------ the window directory
\* A string is the sequence of its characters' code points: 32 is " ",
\* 40 "(", 41 ")", 48..57 the digits, 65..90 "A".."Z", 97..122 "a".."z".
\* str.strip() with no argument removes whitespace at both ends.
IsSpace(c) == c \in {9, 10, 11, 12, 13, 32}

RECURSIVE StripLeft(_)
StripLeft(s) ==
    IF s = <<>> THEN s
    ELSE IF IsSpace(Head(s)) THEN StripLeft(Tail(s)) ELSE s

RECURSIVE StripRight(_)
StripRight(s) ==
    IF s = <<>> THEN s
    ELSE IF IsSpace(s[Len(s)]) THEN StripRight(SubSeq(s, 1, Len(s) - 1)) ELSE s

strip(s) == StripRight(StripLeft(s))

\* str.lower() on these characters.
lower(s) == [k \in 1..Len(s) |-> IF s[k] \in 65..90 THEN s[k] + 32 ELSE s[k]]

\* a < b on Python strings: by code point, a proper prefix first.
RECURSIVE StrLess(_, _)
StrLess(a, b) ==
    IF b = <<>> THEN FALSE
    ELSE IF a = <<>> THEN TRUE
    ELSE IF Head(a) # Head(b) THEN Head(a) < Head(b)
    ELSE StrLess(Tail(a), Tail(b))

\* The sort key with lower() forgotten: the title as it is.
SortKeyCaseSensitive(w) == w.title

\* key=lambda w: w.title.lower()
SortKey(w) == lower(w.title)

\* sorted(windows, key=...): stable, so a window goes after those already
\* placed whose key is not greater.
InsertByKey(w, ws) ==
    LET later == {i \in 1..Len(ws) : StrLess(SortKey(w), SortKey(ws[i]))}
        at    == IF later = {} THEN Len(ws) + 1
                 ELSE CHOOSE i \in later : \A j \in later : i <= j
    IN  SubSeq(ws, 1, at - 1) \o <<w>> \o SubSeq(ws, at, Len(ws))

RECURSIVE sorted(_)
sorted(ws) ==
    IF ws = <<>> THEN <<>>
    ELSE InsertByKey(ws[Len(ws)], sorted(SubSeq(ws, 1, Len(ws) - 1)))

\* enumerate_windows over a desktop: the windows in the order EnumWindows
\* hands them to the callback, each with what IsWindowVisible and
\* get_window_text return for it.
enumerate_windows(desktop) ==
    LET kept == SelectSeq(desktop,
                          LAMBDA w : w.visible /\ strip(w.title) # <<>>)
    IN  sorted([k \in 1..Len(kept) |->
                   [hwnd |-> kept[k].hwnd, title |-> kept[k].title]])

\* str(hwnd) for a handle, in decimal.
RECURSIVE IntStr(_)
IntStr(n) ==
    IF n < 10 THEN <<48 + n>>
    ELSE Append(IntStr(n \div 10), 48 + (n % 10))

\* WindowInfo.__str__: f"{self.title} ({self.hwnd})"
WindowInfoStr(w) == w.title \o <<32, 40>> \o IntStr(w.hwnd) \o <<41>>

\* text.split('(')[1]: what lies between the first "(" and the next one.
SplitParenSecond(text) ==
    LET at   == {i \in 1..Len(text) : text[i] = 40}
        i1   == CHOOSE i \in at : \A j \in at : i <= j
        rest == {i \in at : i > i1}
        i2   == IF rest = {} THEN Len(text) + 1
                ELSE CHOOSE i \in rest : \A j \in rest : i <= j
    IN  IF at = {} THEN <<>> ELSE SubSeq(text, i1 + 1, i2 - 1)

\* text.split('(')[-1]: what follows the last "(" (all of it when none).
SplitParenLast(text) ==
    LET at == {i \in 1..Len(text) : text[i] = 40}
    IN  IF at = {} THEN text
        ELSE SubSeq(text, (CHOOSE i \in at : \A j \in at : j <= i) + 1, Len(text))

\* s.rstrip(')')
RECURSIVE RStripParen(_)
RStripParen(s) ==
    IF s = <<>> THEN s
    ELSE IF s[Len(s)] = 41 THEN RStripParen(SubSeq(s, 1, Len(s) - 1)) ELSE s

\* int(s) for a string: surrounding whitespace is ignored, then decimal
\* digits are required; -1 stands for ValueError.
IntOfStr(s) ==
    LET body == strip(s)
    IN  IF body = <<>> \/ \E k \in 1..Len(body) : body[k] \notin 48..57
        THEN -1
        ELSE DigitsValue([k \in 1..Len(body) |-> body[k] - 48])

\* text.split(' (')[0]: what precedes the first " (" (all of it when none).
SplitSpaceParenFirst(text) ==
    LET at == {i \in 1..(Len(text) - 1) : text[i] = 32 /\ text[i + 1] = 40}
    IN  IF at = {} THEN text
        ELSE SubSeq(text, 1, (CHOOSE i \in at : \A j \in at : i <= j) - 1)

\* The handle taken from the first parenthesis of the entry instead of the
\* last: int(window_text.split('(')[1].rstrip(')')).
ParseHwndFirstParen(window_text) ==
    IntOfStr(RStripParen(SplitParenSecond(window_text)))

\* hwnd = int(window_text.split('(')[-1].rstrip(')'))
ParseHwnd(window_text) == IntOfStr(RStripParen(SplitParenLast(window_text)))

\* ------------------------------------------------- _clicking_loop (a thread)
\* An exception inside the try block: the handler posts the error callback
\* with root.after; the lambda closes over the handler's variable e, which
\* stays bound until the handler is left (ThreadLeaveExcept).
RaiseInLoop(t) ==
    /\ threads' = [threads EXCEPT ![t] = [NoThread EXCEPT !.pc = "except"]]
    /\ after_queue' = Append(after_queue,
                             [msg |-> "Clicking error", t |-> t, e_bound |-> TRUE,
                              overtaken |-> FALSE])

\* while self.is_running: the test, when the thread starts and each time
\* time.sleep(delay_ms / 1000.0) has ended.
ThreadWhile(t) ==
    /\ threads[t].pc \in {"start", "sleep"}
    /\ IF is_running
       THEN threads' = [threads EXCEPT ![t].pc = "valid", ![t].stop = FALSE]
       ELSE threads' = [threads EXCEPT ![t] = [NoThread EXCEPT !.pc = "done"]]
    /\ UNCHANGED <<appVars, after_queue>>

\* ThreadCheckWindow with the break forgotten: the report is posted and the
\* iteration goes on.
ThreadCheckWindowNoBreak(t) ==
    /\ threads[t].pc = "valid"
    /\ threads' = [threads EXCEPT ![t].pc = "arg_hwnd"]
    /\ IF is_window_valid(selected_window)
       THEN UNCHANGED after_queue
       ELSE after_queue' = Append(after_queue,
                               [msg |-> "Target window closed", t |-> t,
                                e_bound |-> FALSE, overtaken |-> FALSE])
    /\ UNCHANGED appVars

\* if not is_window_valid(self.selected_window.hwnd): root.after(...); break
ThreadCheckWindow(t) ==
    /\ threads[t].pc = "valid"
    /\ IF is_window_valid(selected_window)
       THEN /\ threads' = [threads EXCEPT ![t].pc = "arg_hwnd"]
            /\ UNCHANGED after_queue
       ELSE /\ threads' = [threads EXCEPT ![t] = [NoThread EXCEPT !.pc = "done"]]
            /\ after_queue' = Append(after_queue,
                                 [msg |-> "Target window closed", t |-> t,
                                  e_bound |-> FALSE, overtaken |-> FALSE])
    /\ UNCHANGED appVars

\* The four arguments of send_mouse_click are evaluated one after the other,
\* each a fresh read of the application's attributes.  No handler assigns
\* both selected_window and click_position, so the first two reads are one
\* step.
ThreadArgHwndX(t) ==
    /\ threads[t].pc = "arg_hwnd"
    /\ threads' = [threads EXCEPT ![t].pc = "arg_y", ![t].hwnd = selected_window,
                                   ![t].x = click_position[1]]
    /\ UNCHANGED <<appVars, after_queue>>

ThreadArgY(t) ==
    /\ threads[t].pc = "arg_y"
    /\ threads' = [threads EXCEPT ![t].pc = "arg_type", ![t].y = click_position[2]]
    /\ UNCHANGED <<appVars, after_queue>>

ThreadArgType(t) ==
    /\ threads[t].pc = "arg_type"
    /\ threads' = [threads EXCEPT ![t].pc = "smc_check",
                                   ![t].click_type = click_type_var]
    /\ UNCHANGED <<appVars, after_queue>>

\* send_mouse_click, up to the computation of lParam: an invalid handle
\* raises ValueError, which _clicking_loop catches.
ThreadSmcCheck(t) ==
    /\ threads[t].pc = "smc_check"
    /\ IF ~is_window_valid(threads[t].hwnd)
       THEN RaiseInLoop(t)
       ELSE /\ threads' = [threads EXCEPT
                    ![t].pc = "smc", ![t].i = 1, ![t].x = 0, ![t].y = 0,
                    ![t].lParam =
                        LET c == screen_to_client(threads[t].hwnd, threads[t].x,
                                                  threads[t].y)
                        IN  MakeLParam(c[1], c[2])]
            /\ UNCHANGED after_queue
    /\ UNCHANGED appVars

\* PostMessageW returns nonzero exactly when the message was posted; a handle
\* that is no window any more makes it return zero.  send_mouse_click does
\* not look at the value.
PostMessageSucceeds(hwnd) == is_window_valid(hwnd)

\* ThreadSmcStep made to honour a stop at once: when is_running is false the
\* click is abandoned where it is and the thread ends.
ThreadSmcStepStopAware(t) ==
    /\ threads[t].pc = "smc"
    /\ LET steps == SendMouseClickSteps(threads[t].hwnd, threads[t].lParam,
                                        threads[t].click_type)
           i     == threads[t].i
       IN  /\ i <= Len(steps)
           /\ IF ~is_running
              THEN threads' = [threads EXCEPT ![t] = [NoThread EXCEPT !.pc = "done"]]
              ELSE IF i < Len(steps) /\ steps[i + 1].op = "sleep"
              THEN threads' = [threads EXCEPT
                       ![t].trace = @ \o <<steps[i], steps[i + 1]>>,
                       ![t].i = i + 2]
              ELSE threads' = [threads EXCEPT
                       ![t].trace = Append(@, steps[i]),
                       ![t].i = i + 1]
    /\ UNCHANGED <<appVars, after_queue>>

\* The next PostMessageW of send_mouse_click, together with the time.sleep
\* that follows it, if one does (sleeping touches nothing shared).
ThreadSmcStep(t) ==
    /\ threads[t].pc = "smc"
    /\ LET steps == SendMouseClickSteps(threads[t].hwnd, threads[t].lParam,
                                        threads[t].click_type)
           i     == threads[t].i
       IN  /\ i <= Len(steps)
           /\ IF i < Len(steps) /\ steps[i + 1].op = "sleep"
              THEN threads' = [threads EXCEPT
                       ![t].trace = @ \o <<steps[i], steps[i + 1]>>,
                       ![t].i = i + 2]
              ELSE threads' = [threads EXCEPT
                       ![t].trace = Append(@, steps[i]),
                       ![t].i = i + 1]
    /\ UNCHANGED <<appVars, after_queue>>

\* send_mouse_click has returned: delay_ms = int(self.delay_var.get()), and
\* the thread goes to sleep.
ThreadDelay(t) ==
    /\ threads[t].pc = "smc"
    /\ threads[t].i > Len(SendMouseClickSteps(threads[t].hwnd, threads[t].lParam,
                                              threads[t].click_type))
    /\ IF PyInt(delay_var) < 0
       THEN RaiseInLoop(t)
       ELSE /\ threads' = [threads EXCEPT ![t] =
                              [NoThread EXCEPT !.pc = "sleep", !.stop = threads[t].stop]]
            /\ UNCHANGED after_queue
    /\ UNCHANGED appVars

\* The except block ends: Python unbinds e, and the thread's run() returns.
ThreadLeaveExcept(t) ==
    /\ threads[t].pc = "except"
    /\ threads' = [threads EXCEPT ![t] = [NoThread EXCEPT !.pc = "done"]]
    /\ after_queue' = [k \in 1..Len(after_queue) |->
                          IF after_queue[k].t = t
                          THEN [after_queue[k] EXCEPT !.e_bound = FALSE]
                          ELSE after_queue[k]]
    /\ UNCHANGED appVars

\* ------------------------------------------------------ the UI context (Tk)
\* <<ListboxSelect>> on an entry of the listbox.
OnWindowSelect(hwnd) ==
    /\ hwnd \in window_listbox
    /\ selected_window' = hwnd
    /\ messagebox' = "none"
    /\ UNCHANGED <<loopVars, selVars, envVars, auxVars, click_position, click_type_var,
                   delay_var, window_listbox>>

\* "Refresh Window List": the listbox shows what enumerate_windows returns.
RefreshWindowList ==
    /\ window_listbox' = windows
    /\ messagebox' = "none"
    /\ UNCHANGED <<loopVars, selVars, envVars, auxVars, click_position, selected_window,
                   click_type_var, delay_var>>

\* The user picks an entry of the read-only click type combobox.
SetClickType(click_type) ==
    /\ click_type \in ClickTypes
    /\ click_type # click_type_var
    /\ click_type_var' = click_type
    /\ messagebox' = "none"
    /\ UNCHANGED <<loopVars, selVars, envVars, auxVars, click_position, selected_window,
                   delay_var, window_listbox>>

\* The user edits the delay spinbox; _validate_delay admits the text.
SetDelay(text) ==
    /\ text \in DelayTexts
    /\ text # delay_var
    /\ delay_var' = text
    /\ messagebox' = "none"
    /\ UNCHANGED <<loopVars, selVars, envVars, auxVars, click_position, selected_window,
                   click_type_var, window_listbox>>

\* History kept with the callbacks in the after queue: overtaken records that
\* a run has been started since the thread that posted the callback ended.
Overtake(queue) ==
    [k \in 1..Len(queue) |->
        IF IsAlive(queue[k].t) THEN queue[k]
        ELSE [queue[k] EXCEPT !.overtaken = TRUE]]

\* _start_clicking without its third validation (the handle is not checked).
StartClickingNoHandleCheck ==
    IF selected_window = None THEN
        /\ messagebox' = "No Window Selected"
        /\ UNCHANGED loopVars
    ELSE IF click_position = NoPosition THEN
        /\ messagebox' = "No Position Selected"
        /\ UNCHANGED loopVars
    ELSE
        /\ FreeSlots # {}
        /\ is_running' = TRUE
        /\ toggle_btn' = "Stop Auto Clicking (F6)"
        /\ messagebox' = "none"
        /\ LET t == CHOOSE s \in FreeSlots : \A u \in FreeSlots : s <= u
           IN  threads' = [threads EXCEPT ![t] = [NoThread EXCEPT !.pc = "start"]]
        /\ after_queue' = Overtake(after_queue)

\* _start_clicking: three validations, each ending in a dialog, then the
\* flag, the button and a new thread running _clicking_loop.
StartClicking ==
    IF selected_window = None THEN
        /\ messagebox' = "No Window Selected"
        /\ UNCHANGED loopVars
    ELSE IF click_position = NoPosition THEN
        /\ messagebox' = "No Position Selected"
        /\ UNCHANGED loopVars
    ELSE IF ~is_window_valid(selected_window) THEN
        /\ messagebox' = "Invalid Window"
        /\ UNCHANGED loopVars
    ELSE
        /\ FreeSlots # {}
        /\ is_running' = TRUE
        /\ toggle_btn' = "Stop Auto Clicking (F6)"
        /\ messagebox' = "none"
        /\ LET t == CHOOSE s \in FreeSlots : \A u \in FreeSlots : s <= u
           IN  threads' = [threads EXCEPT ![t] = [NoThread EXCEPT !.pc = "start"]]
        /\ after_queue' = Overtake(after_queue)

\* _stop_clicking: the flag and the button.  Every thread in the loop at this
\* moment has now been asked to stop.
StopClicking ==
    /\ is_running' = FALSE
    /\ toggle_btn' = "Start Auto Clicking (F6)"
    /\ messagebox' = "none"
    /\ threads' = [t \in Threads |->
                      IF InLoop(t)
                      THEN [threads[t] EXCEPT !.stop = TRUE]
                      ELSE threads[t]]
    /\ UNCHANGED after_queue

\* toggle_clicking: the start/stop button and the F6 binding.
ToggleClicking ==
    /\ IF is_running THEN StopClicking ELSE StartClicking
    /\ UNCHANGED <<cfgVars, selVars, envVars, auxVars, click_position>>

\* _handle_clicking_error(error_message).
HandleClickingError(error_message) ==
    /\ is_running' = FALSE
    /\ toggle_btn' = "Start Auto Clicking (F6)"
    /\ messagebox' = "Auto-Clicking Error"

\* The UI context runs the oldest callback posted with root.after(0, ...).
\* The callback of the except handler formats str(e) first; with e already
\* unbound that raises NameError, which Tk reports on stderr, and
\* _handle_clicking_error is not called.
RunAfterCallback ==
    /\ after_queue # <<>>
    /\ after_queue' = Tail(after_queue)
    /\ LET cb == Head(after_queue)
       IN  IF cb.msg = "Clicking error" /\ ~cb.e_bound
           THEN /\ messagebox' = "none"
                /\ UNCHANGED <<is_running, toggle_btn>>
           ELSE HandleClickingError(cb.msg)
    /\ UNCHANGED <<cfgVars, selVars, envVars, auxVars, click_position, threads>>

\* start_position_selection ("Select Position" button, enabled).
\* keyboard.add_hotkey either registers the hotkey or raises; an exception
\* leaves the handler at that line and Tk reports it on stderr.
StartPositionSelection ==
    /\ select_position_btn = "normal"
    /\ messagebox' = "none"
    /\ IF position_selection_active
       THEN UNCHANGED <<position_selection_active, select_position_btn,
                        hotkey_registered, position_sets>>
       ELSE /\ position_selection_active' = TRUE
            /\ select_position_btn' = "disabled"
            /\ hotkey_registered' = hook_available
            /\ position_sets' = 0
    /\ UNCHANGED <<loopVars, cfgVars, envVars, auxVars, click_position, kb>>

\* _handle_position_hotkey run by the window's own <F8> binding.
\* keyboard.remove_hotkey raises KeyError when the hotkey is not registered,
\* which skips the rest of the handler.
HandlePositionHotkey ==
    /\ messagebox' = "none"
    /\ IF position_selection_active
       THEN /\ click_position' = cursor
            /\ position_sets' = IF position_sets < 2 THEN position_sets + 1 ELSE 2
            /\ select_position_btn' = "normal"
            /\ position_selection_active' = FALSE
            /\ hotkey_registered' = FALSE
       ELSE UNCHANGED <<click_position, select_position_btn, position_sets,
                        position_selection_active, hotkey_registered>>
    /\ UNCHANGED <<loopVars, cfgVars, envVars, auxVars, kb>>

\* --------------------------------- the keyboard library's thread (global F8)
\* F8 is pressed while the hotkey is registered: the library calls
\* _handle_position_hotkey on its own thread.  First the test of the flag
\* and the sampling of the cursor.
KbHotkey ==
    /\ hotkey_registered
    /\ kb.pc = "idle"
    /\ position_selection_active
    /\ kb' = [pc |-> "sampled", x |-> cursor[1], y |-> cursor[2]]
    /\ UNCHANGED <<loopVars, cfgVars, envVars, auxVars, click_position,
                   position_selection_active, select_position_btn,
                   hotkey_registered, position_sets, messagebox>>

\* self.click_position = ClickPosition(x, y), then the two widget updates.
KbSetPosition ==
    /\ kb.pc = "sampled"
    /\ click_position' = <<kb.x, kb.y>>
    /\ position_sets' = IF position_sets < 2 THEN position_sets + 1 ELSE 2
    /\ select_position_btn' = "normal"
    /\ kb' = [pc |-> "set", x |-> 0, y |-> 0]
    /\ UNCHANGED <<loopVars, cfgVars, envVars, auxVars, position_selection_active,
                   hotkey_registered, messagebox>>

\* The flag, remove_hotkey (KeyError when the hotkey is gone already), the
\* window restored and the status.
KbFinish ==
    /\ kb.pc = "set"
    /\ position_selection_active' = FALSE
    /\ hotkey_registered' = FALSE
    /\ kb' = [pc |-> "idle", x |-> 0, y |-> 0]
    /\ UNCHANGED <<loopVars, cfgVars, envVars, auxVars, click_position,
                   select_position_btn, position_sets, messagebox>>

\* -------------------------------------------------------------- environment
\* A window is destroyed: IsWindow is false for its handle from now on.
CloseWindow(hwnd) ==
    /\ hwnd \in windows
    /\ windows' = windows \ {hwnd}
    /\ UNCHANGED <<loopVars, cfgVars, selVars, auxVars, cursor, hook_available,
                   click_position, messagebox>>

\* The user moves the mouse.
MoveCursor(point) ==
    /\ point \in CursorPoints
    /\ point # cursor
    /\ cursor' = point
    /\ UNCHANGED <<loopVars, cfgVars, selVars, auxVars, windows, hook_available,
                   click_position, messagebox>>

\* The keyboard library loses, or regains, the means to register hotkeys
\* (its hook cannot be installed, the key is claimed elsewhere).
SetHookAvailable(available) ==
    /\ available \in BOOLEAN
    /\ available # hook_available
    /\ hook_available' = available
    /\ UNCHANGED <<loopVars, cfgVars, selVars, auxVars, windows, cursor, click_position,
                   messagebox>>

\* ----------------------------------------------------------- specifications
\* One step of some click thread.
ThreadStep(t) ==
    \/ ThreadWhile(t)
    \/ ThreadCheckWindow(t)
    \/ ThreadArgHwndX(t)
    \/ ThreadArgY(t)
    \/ ThreadArgType(t)
    \/ ThreadSmcCheck(t)
    \/ ThreadSmcStep(t)
    \/ ThreadDelay(t)
    \/ ThreadLeaveExcept(t)

\* The life cycle of the clicking loop: the user selects a window and a
\* position, starts and stops the loop, windows close, and the click threads
\* run.
Next ==
    \/ \E hwnd \in Hwnds : OnWindowSelect(hwnd)
    \/ StartPositionSelection
    \/ HandlePositionHotkey
    \/ ToggleClicking
    \/ RunAfterCallback
    \/ \E hwnd \in Hwnds : CloseWindow(hwnd)
    \/ \E t \in Threads : ThreadStep(t)

Spec == Init /\ [][Next]_vars

\* Position selection: the button, the window's own F8 binding, the global
\* F8 hotkey on the keyboard library's thread, a moving cursor, and a hotkey
\* registration that can fail.
NextHotkey ==
    \/ StartPositionSelection
    \/ HandlePositionHotkey
    \/ KbHotkey
    \/ KbSetPosition
    \/ KbFinish
    \/ \E point \in CursorPoints : MoveCursor(point)
    \/ \E available \in BOOLEAN : SetHookAvailable(available)
    \/ \E hwnd \in Hwnds : OnWindowSelect(hwnd)

SpecHotkey == Init /\ [][NextHotkey]_vars

\* The click synthesizer at work: a loop that has just been started, for
\* every window, position and click type it can be started with; the user
\* changes the click type while it runs, and windows close.
InitClick ==
    /\ is_running = TRUE
    /\ click_position \in CursorPoints
    /\ selected_window \in Hwnds
    /\ position_selection_active = FALSE
    /\ click_type_var \in ClickTypes
    /\ delay_var = <<1, 0, 0>>
    /\ window_listbox = Hwnds
    /\ toggle_btn = "Stop Auto Clicking (F6)"
    /\ select_position_btn = "normal"
    /\ messagebox = "none"
    /\ windows = Hwnds
    /\ threads = [t \in Threads |->
                     IF t = 1 THEN [NoThread EXCEPT !.pc = "start"] ELSE NoThread]
    /\ after_queue = <<>>
    /\ hotkey_registered = FALSE
    /\ position_sets = 1
    /\ cursor = click_position
    /\ hook_available = TRUE
    /\ kb = [pc |-> "idle", x |-> 0, y |-> 0]
    /\ run_config = [hwnd |-> selected_window, point |-> click_position]
    /\ call = NoCall

NextClick ==
    \/ \E t \in Threads : ThreadStep(t)
    \/ \E click_type \in ClickTypes : SetClickType(click_type)
    \/ \E text \in DelayTexts : SetDelay(text)
    \/ RefreshWindowList
    \/ \E hwnd \in Hwnds : CloseWindow(hwnd)

SpecClick == InitClick /\ [][NextClick]_vars

\* The application with the delay spinbox in use: the user edits the delay
\* before and during runs.
NextDelay ==
    \/ \E hwnd \in Hwnds : OnWindowSelect(hwnd)
    \/ StartPositionSelection
    \/ HandlePositionHotkey
    \/ \E text \in DelayTexts : SetDelay(text)
    \/ ToggleClicking
    \/ RunAfterCallback
    \/ \E t \in Threads : ThreadStep(t)

SpecDelay == Init /\ [][NextDelay]_vars

\* One run, from the moment it is started: while its thread clicks, the user
\* selects other windows and re-selects the position, the cursor moves and
\* windows close.
NextRun ==
    \/ \E t \in Threads : ThreadStep(t)
    \/ \E hwnd \in Hwnds : OnWindowSelect(hwnd)
    \/ StartPositionSelection
    \/ HandlePositionHotkey
    \/ RunAfterCallback
    \/ \E point \in CursorPoints : MoveCursor(point)
    \/ \E hwnd \in Hwnds : CloseWindow(hwnd)

SpecRun == InitClick /\ [][NextRun]_vars

\* send_mouse_click's packing of the position, called on its own for client
\* coordinates over the signed 16-bit range.
Coords == {-32768, -32767, -256, -2, -1, 0, 1, 255, 256, 32766, 32767}

InitLParam ==
    /\ InitApp
    /\ call \in [fn : {"lParam"}, client_x : Coords, client_y : Coords,
                 returned : {FALSE}, lParam : {0}]

\* lParam = (client_y << 16) | (client_x & 0xFFFF).  Over this range the
\* value fits a C int, which is how ctypes passes it to PostMessageW.
PackLParam ==
    /\ call.fn = "lParam"
    /\ ~call.returned
    /\ call' = [call EXCEPT !.returned = TRUE,
                            !.lParam = MakeLParam(call.client_x,
                                                  call.client_y)]
    /\ UNCHANGED stateVars

NextLParam == PackLParam

SpecLParam == InitLParam /\ [][NextLParam]_vars

\* The window list on its own: a desktop is enumerated into the listbox and
\* the user selects entries.  Handles of one and of several digits; titles
\* that are empty, blank, differ in case, or contain parentheses:
\* "", " ", "a", "B", "Ab", "(7", "a (7)".
EnumOrder == <<65552, 7, 1048>>

Titles == {<<>>, <<32>>, <<97>>, <<66>>, <<65, 98>>, <<40, 55>>,
           <<97, 32, 40, 55, 41>>}

Desktops ==
    {[k \in 1..Len(EnumOrder) |->
         [hwnd |-> EnumOrder[k], visible |-> v[k], title |-> ti[k]]] :
       v \in [1..Len(EnumOrder) -> BOOLEAN],
       ti \in [1..Len(EnumOrder) -> Titles]}

NoWindowInfo == [hwnd |-> None, title |-> <<>>]

InitDirectory ==
    /\ InitApp
    /\ call \in [fn : {"directory"}, desktop : Desktops, refreshed : {FALSE},
                 windows : {<<>>}, listbox : {<<>>}, index : {0},
                 selected_window : {NoWindowInfo}]

\* refresh_window_list: the listbox is emptied and gets str(window) for
\* each window enumerate_windows returns, in that order.
RefreshDirectory ==
    /\ call.fn = "directory"
    /\ ~call.refreshed
    /\ LET found == enumerate_windows(call.desktop)
       IN  call' = [call EXCEPT
                       !.refreshed = TRUE,
                       !.windows = found,
                       !.listbox = [k \in 1..Len(found) |->
                                       WindowInfoStr(found[k])]]
    /\ UNCHANGED stateVars

\* _on_window_select with the entry at index selected: the handle and the
\* title are taken back out of the entry's text.  int() raising ValueError
\* leaves the handler before selected_window is assigned.
SelectEntry(index) ==
    /\ call.fn = "directory"
    /\ call.refreshed
    /\ index \in 1..Len(call.listbox)
    /\ index # call.index
    /\ LET window_text == call.listbox[index]
           hwnd        == ParseHwnd(window_text)
       IN  call' = [call EXCEPT
                       !.index = index,
                       !.selected_window =
                           IF hwnd < 0 THEN @
                           ELSE [hwnd |-> hwnd,
                                 title |-> SplitSpaceParenFirst(window_text)]]
    /\ UNCHANGED stateVars

NextDirectory ==
    \/ RefreshDirectory
    \/ \E index \in 1..Len(EnumOrder) : SelectEntry(index)

SpecDirectory == InitDirectory /\ [][NextDirectory]_vars

\* ------------------------------------------------------------------ claims
\* C1: at every moment at most one click thread is inside the loop body
\* (asleep between two clicks included).
C1_AtMostOneLiveLoop ==
    Cardinality({t \in Threads : InLoopBody(t)}) <= 1

\* C2: a thread that has been asked to stop (by _stop_clicking, since it last
\* tested is_running) leaves the loop at its next test of is_running: it
\* starts no further iteration, whatever the UI did in between.
C2_StopSeenAtNextTest ==
    [][\A t \in Threads :
          (threads[t].stop /\ threads[t].pc \in {"start", "sleep"}
                           /\ threads'[t].pc # threads[t].pc)
          => threads'[t].pc = "done"]_vars

\* C3: a thread whose liveness check finds the selected window invalid ends
\* in that step, posting the callback with "Target window closed" to the UI;
\* a thread that has ended posts no message to any window.
C3_TargetLostEndsThread ==
    [][\A t \in Threads :
          /\ (threads[t].pc = "valid" /\ ~is_window_valid(selected_window)
                                      /\ threads'[t].pc # "valid")
             => /\ threads'[t].pc = "done"
                /\ after_queue' = Append(after_queue,
                                     [msg |-> "Target window closed", t |-> t,
                                      e_bound |-> FALSE, overtaken |-> FALSE])
          /\ threads[t].pc = "done"
             => threads'[t].pc \in {"done", "start"} /\ threads'[t].trace = <<>>]_vars

\* A thread has ended on a lost target and its report waits in the UI's queue.
C3_Witness ==
    \E t \in Threads :
        /\ threads[t].pc = "done"
        /\ \E k \in 1..Len(after_queue) :
               after_queue[k] = [msg |-> "Target window closed", t |-> t,
                                 e_bound |-> FALSE, overtaken |-> FALSE]

\* C4: a start launches a thread only when no thread is in the loop: a start
\* that follows a stop the running thread has not yet seen launches nothing.
C4_NoSecondThread ==
    [][\A t \in Threads :
          (threads'[t].pc = "start" /\ threads[t].pc # "start")
          => \A u \in Threads : ~InLoop(u)]_vars

\* C5: when the UI runs the callback of an error caught in the loop, the
\* state becomes Idle and the error is shown.
C5_LoopErrorReachesUser ==
    [][(RunAfterCallback /\ Head(after_queue).msg = "Clicking error")
       => (~is_running' /\ messagebox' = "Auto-Clicking Error")]_vars

\* C6: a start with no window selected, no position selected or a selected
\* handle that is no window is rejected in the same step: the state stays
\* Idle, no thread is launched, nothing is posted, and a dialog says why.
StartRejections == {"No Window Selected", "No Position Selected", "Invalid Window"}

C6_InvalidStartRejected ==
    [][(/\ ToggleClicking
        /\ ~is_running
        /\ \/ selected_window = None
           \/ click_position = NoPosition
           \/ ~is_window_valid(selected_window))
       => (/\ ~is_running'
           /\ threads' = threads
           /\ after_queue' = after_queue
           /\ messagebox' \in StartRejections)]_vars

\* A start was just rejected for a window that has been closed, with a
\* position selected and nothing running.
C6_Witness ==
    /\ messagebox = "Invalid Window"
    /\ ~is_running
    /\ selected_window # None /\ ~is_window_valid(selected_window)
    /\ click_position # NoPosition
    /\ \A t \in Threads : ~IsAlive(t)

\* C7: a PostMessageW that reports failure makes send_mouse_click fail: the
\* loop's error handler is entered in that step, and the call posts nothing
\* more.
C7_FailedPostStopsLoop ==
    [][\A t \in Threads :
          (/\ threads[t].pc = "smc"
           /\ Len(threads'[t].trace) > Len(threads[t].trace)
           /\ ~PostMessageSucceeds(threads[t].hwnd))
          => threads'[t].pc = "except"]_vars

\* C8: one call of send_mouse_click posts, all to the handle it was given and
\* all with the same lParam: for a double click left-down, left-up, a 50 ms
\* wait, left-down, left-up; for a left click left-down, a 10 ms wait,
\* left-up; for a right click right-down, a 10 ms wait, right-up; and nothing
\* else.  While the call runs, what it has done is a prefix of that.
Posted(msg) == <<"post", msg, 0>>
Waited(ms)  == <<"sleep", 0, ms>>

ExpectedClick(click_type) ==
    CASE click_type = "Double Click" ->
             << Posted(WM_LBUTTONDOWN), Posted(WM_LBUTTONUP), Waited(50),
                Posted(WM_LBUTTONDOWN), Posted(WM_LBUTTONUP) >>
      [] click_type = "Left Click" ->
             << Posted(WM_LBUTTONDOWN), Waited(10), Posted(WM_LBUTTONUP) >>
      [] click_type = "Right Click" ->
             << Posted(WM_RBUTTONDOWN), Waited(10), Posted(WM_RBUTTONUP) >>

TraceShape(trace) ==
    [k \in 1..Len(trace) |-> <<trace[k].op, trace[k].msg, trace[k].ms>>]

CallReturned(t) ==
    /\ threads[t].pc = "smc"
    /\ threads[t].i > Len(SendMouseClickSteps(threads[t].hwnd, threads[t].lParam,
                                              threads[t].click_type))

C8_ClickSequences ==
    \A t \in Threads :
        threads[t].pc = "smc" =>
            LET trace    == threads[t].trace
                shape    == TraceShape(trace)
                expected == ExpectedClick(threads[t].click_type)
            IN  /\ Len(shape) <= Len(expected)
                /\ shape = SubSeq(expected, 1, Len(shape))
                /\ CallReturned(t) => shape = expected
                /\ \A k \in 1..Len(trace) :
                       trace[k].op = "post" =>
                           /\ trace[k].hwnd = threads[t].hwnd
                           /\ trace[k].lParam = threads[t].lParam

\* A double click has been delivered in full.
C8_Witness ==
    \E t \in Threads :
        /\ CallReturned(t)
        /\ threads[t].click_type = "Double Click"
        /\ Len(threads[t].trace) = 5

\* C9: between two armings of position selection, click_position is
\* assigned at most once.
C9_OneSamplePerArming == position_sets <= 1

\* C10: when the hotkey cannot be registered, start_position_selection
\* leaves selection inactive, the button usable, and shows the failure.
C10_FailedRegistrationAborts ==
    [][(StartPositionSelection /\ ~position_selection_active /\ ~hook_available)
       => (/\ ~position_selection_active'
           /\ select_position_btn' = "normal"
           /\ messagebox' # "none")]_vars

\* C11: a stop never interrupts a click in flight.  A thread that has posted
\* a button-down message and not yet the button-up stays in send_mouse_click
\* until its next post, and that post is the matching button-up to the same
\* handle, whether or not _stop_clicking has run in between.
ButtonUpOf(msg) ==
    IF msg = WM_LBUTTONDOWN THEN WM_LBUTTONUP
    ELSE IF msg = WM_RBUTTONDOWN THEN WM_RBUTTONUP
    ELSE 0

Posts(trace) == SelectSeq(trace, LAMBDA e : e.op = "post")

\* The last message the thread's current call has posted is a button-down.
DownPending(t) ==
    /\ Posts(threads[t].trace) # <<>>
    /\ LET posts == Posts(threads[t].trace)
       IN  posts[Len(posts)].msg \in {WM_LBUTTONDOWN, WM_RBUTTONDOWN}

C11_StopLeavesClickWhole ==
    [][\A t \in Threads :
          (DownPending(t) /\ \/ threads'[t].pc # threads[t].pc
                             \/ threads'[t].trace # threads[t].trace) =>
              LET before == Posts(threads[t].trace)
                  after  == Posts(threads'[t].trace)
                  down   == before[Len(before)]
              IN  /\ threads'[t].pc = "smc"
                  /\ Len(after) = Len(before) + 1
                  /\ after[Len(after)].msg = ButtonUpOf(down.msg)
                  /\ after[Len(after)].hwnd = down.hwnd]_vars

\* The button is down, the button-up is still to be posted, and
\* _stop_clicking has run since the thread last tested is_running.
C11_Witness ==
    \E t \in Threads :
        /\ DownPending(t)
        /\ threads[t].pc = "smc"
        /\ threads[t].stop
        /\ ~is_running

\* C12: no thread is launched while the delay spinbox holds something other
\* than an integer in 1..999999.
C12_NoStartWithBadInterval ==
    [][\A t \in Threads :
          (threads'[t].pc = "start" /\ threads[t].pc # "start")
          => PyInt(delay_var) \in 1..999999]_vars

\* C13: a run that has ended leaves the loop state Idle: the state is never
\* Running with no click thread alive and no notification on its way to the
\* UI (from such a state nothing sets it to Idle, and the next F6 stops
\* instead of starting).
C13_EndedRunIsIdle ==
    (is_running /\ \A t \in Threads : ~IsAlive(t)) => after_queue # <<>>

\* C20: a notification of a thread that has ended only ends that thread's
\* run.  When the UI runs a callback posted by a thread since whose end a run
\* has been started, and that run is on (is_running), it stays on.
C20_StaleNotificationSparesNewRun ==
    [][(RunAfterCallback /\ Head(after_queue).overtaken /\ is_running)
       => is_running']_vars

\* C15: every message a run posts goes to the window, and carries the point,
\* that were selected when the run was started, whatever is selected while
\* it runs.
LParamOf(hwnd, point) ==
    LET c == screen_to_client(hwnd, point[1], point[2])
    IN  MakeLParam(c[1], c[2])

C15_RunKeepsItsTarget ==
    \A t \in Threads :
        \A k \in 1..Len(threads[t].trace) :
            threads[t].trace[k].op = "post" =>
                /\ threads[t].trace[k].hwnd = run_config.hwnd
                /\ threads[t].trace[k].lParam =
                       LParamOf(run_config.hwnd, run_config.point)

\* C19: the x and the y a click is delivered for were selected together:
\* the pair handed to send_mouse_click is a point the cursor was sampled at.
C19_PointNotTorn ==
    \A t \in Threads :
        threads[t].pc = "smc_check" =>
            <<threads[t].x, threads[t].y>> \in CursorPoints

\* C16: widgets are written on the UI context only: the state of the
\* "Select Position" button changes in handlers that Tk runs (the button's
\* command, the window's F8 binding), never in a step of the keyboard
\* library's thread or of a click thread.
C16_WidgetsWrittenOnUiOnly ==
    [][select_position_btn' # select_position_btn
       => ~(KbHotkey \/ KbSetPosition \/ KbFinish
            \/ \E t \in Threads : ThreadStep(t))]_vars

\* C17: the position payload PostMessageW gets holds the client x in its low
\* 16 bits and the client y in its high 16 bits, each modulo 2^16, for every
\* x and y of the signed 16-bit range.  (LOWORD and HIWORD of a 32-bit
\* two's-complement parameter.)
LoWord(lParam) == lParam % 65536
HiWord(lParam) == (lParam \div 65536) % 65536

C17_LParamPacksXY ==
    (call.fn = "lParam" /\ call.returned) =>
        /\ LoWord(call.lParam) = call.client_x % 65536
        /\ HiWord(call.lParam) = call.client_y % 65536

\* The payload for a negative x and a negative y has been computed.
C17_Witness ==
    /\ call.fn = "lParam"
    /\ call.returned
    /\ call.client_x = -1
    /\ call.client_y = -32768

\* C14: enumerate_windows returns exactly the windows of the desktop that
\* are visible and whose title has a character that is not whitespace, each
\* once, in ascending order of their titles compared without regard to
\* case; with no such window it returns the empty list.
Listable(w) == w.visible /\ \E k \in 1..Len(w.title) : ~IsSpace(w.title[k])

C14_ListIsFilteredAndSorted ==
    (call.fn = "directory" /\ call.refreshed) =>
        LET desktop == call.desktop
            found   == call.windows
        IN  /\ \A i \in 1..Len(found) :
                   \E k \in 1..Len(desktop) :
                       /\ Listable(desktop[k])
                       /\ found[i] = [hwnd |-> desktop[k].hwnd,
                                        title |-> desktop[k].title]
            /\ \A k \in 1..Len(desktop) :
                   Listable(desktop[k]) =>
                       Cardinality({i \in 1..Len(found) :
                                       found[i].hwnd = desktop[k].hwnd}) = 1
            /\ Len(found) =
                   Cardinality({k \in 1..Len(desktop) : Listable(desktop[k])})
            /\ \A i, j \in 1..Len(found) :
                   i < j => ~StrLess(lower(found[j].title),
                                     lower(found[i].title))

\* A desktop with a hidden window, "B" enumerated before "a": the list is
\* "a", "B".
C14_Witness ==
    /\ call.fn = "directory"
    /\ call.refreshed
    /\ ~call.desktop[1].visible
    /\ call.desktop[2].visible /\ call.desktop[2].title = <<66>>
    /\ call.desktop[3].visible /\ call.desktop[3].title = <<97>>
    /\ Len(call.windows) = 2
    /\ call.windows[1].title = <<97>>

\* C18: selecting an entry of the list makes selected_window hold the handle
\* of the enumerated window that entry shows, whatever its title.
C18_SelectionRecoversHandle ==
    (call.fn = "directory" /\ call.index # 0) =>
        /\ call.selected_window.hwnd = call.windows[call.index].hwnd
        /\ \E k \in 1..Len(call.desktop) :
               call.desktop[k].hwnd = call.selected_window.hwnd

\* The entry of a window titled "a (7)" with handle 65552 has been selected.
C18_Witness ==
    /\ call.fn = "directory"
    /\ call.index # 0
    /\ call.windows[call.index] = [hwnd |-> 65552, title |-> <<97, 32, 40, 55, 41>>]
    /\ call.selected_window.hwnd = 65552

====
